---- MODULE Spec2Model ----
(***************************************************************************)
(* Model of full_stack_dr_plans_precheck.py: the precheck orchestrator     *)
(* run_prechecks, the notifier send_notification and the helpers they      *)
(* use.  Strings are sequences of one-character strings, so that the       *)
(* regular expressions and split('.') of the source are computed.          *)
(* The vendor API is the environment: each call nondeterministically       *)
(* succeeds with some snapshot or fails.                                   *)
(***************************************************************************)
EXTENDS Integers, Sequences, FiniteSets, TLC

(* ------------------------------ bounds -------------------------------- *)
\* longest plan listing the vendor returns
MaxPlans == 2

(* ------------------------------ strings ------------------------------- *)
\* Python None / the empty string (both falsy) for string-valued names
NoneStr == <<>>

DOT == "."

s_ocid1 == <<"o","c","i","d","1">>
s_drprotectiongroup ==
    <<"d","r","p","r","o","t","e","c","t","i","o","n","g","r","o","u","p">>
s_onstopic == <<"o","n","s","t","o","p","i","c">>
s_oc1 == <<"o","c","1">>
s_iad == <<"i","a","d">>
s_phx == <<"p","h","x">>
s_fra == <<"f","r","a">>
s_us_ashburn_1 == <<"u","s","-","a","s","h","b","u","r","n","-","1">>
s_us_phoenix_1 == <<"u","s","-","p","h","o","e","n","i","x","-","1">>
s_u1 == <<"a","1">>
s_u2 == <<"b","2">>
s_u3 == <<"t","3">>

Lower == {"a","b","c","d","e","f","g","h","i","j","k","l","m","n","o","p","q",
          "r","s","t","u","v","w","x","y","z"}
Digit == {"0","1","2","3","4","5","6","7","8","9"}

RECURSIVE Join(_)
\* the segments joined with '.'
Join(segs) ==
    IF Len(segs) = 0 THEN <<>>
    ELSE IF Len(segs) = 1 THEN segs[1]
    ELSE segs[1] \o <<DOT>> \o Join(Tail(segs))

RECURSIVE SplitFrom(_, _, _)
SplitFrom(s, i, cur) ==
    IF i > Len(s) THEN <<cur>>
    ELSE IF s[i] = DOT THEN <<cur>> \o SplitFrom(s, i + 1, <<>>)
    ELSE SplitFrom(s, i + 1, Append(cur, s[i]))

\* str.split('.')
Split(s) == SplitFrom(s, 1, <<>>)

(* ------------------------------ constants ----------------------------- *)
\* an identifier pattern ^ocid1\.<type>\.[^.]+\.[^.]+\.[^.]+$ is given by
\* its two literal segments
DRPG_OCID_PATTERN == <<s_ocid1, s_drprotectiongroup>>

TOPIC_OCID_PATTERN == <<s_ocid1, s_onstopic>>

\* pattern.match(s): five segments, the two literal ones first, then three
\* that are not empty
OcidPatternMatch(pattern, s) ==
    LET segs == Split(s) IN
        /\ Len(segs) = 5
        /\ segs[1] = pattern[1]
        /\ segs[2] = pattern[2]
        /\ \A i \in 3..5 : Len(segs[i]) > 0

\* [a-z0-9]{2}-[a-z0-9]+-\d{1} over the whole of s
RegionShape(s) ==
    LET n == Len(s) IN
        /\ n >= 6
        /\ s[1] \in Lower \cup Digit
        /\ s[2] \in Lower \cup Digit
        /\ s[3] = "-"
        /\ \A i \in 4..(n - 2) : s[i] \in Lower \cup Digit
        /\ s[n - 1] = "-"
        /\ s[n] \in Digit

\* REGION_PATTERN.match(s) for ^[a-z0-9]{2}-[a-z0-9]+-\d{1}$: in Python `$`
\* also matches just before a newline that ends the string
REGION_PATTERN(s) ==
    \/ RegionShape(s)
    \/ /\ Len(s) >= 1
       /\ s[Len(s)] = "\n"
       /\ RegionShape(SubSeq(s, 1, Len(s) - 1))

\* dict.get: the value, or None
REGION_MAPPING(code) ==
    IF code = s_iad THEN s_us_ashburn_1
    ELSE IF code = s_phx THEN s_us_phoenix_1
    ELSE NoneStr

DrPlanType == {"SWITCHOVER", "FAILOVER", "START_DRILL", "STOP_DRILL"}

(* ------------------------------ utilities ----------------------------- *)
\* a validator that accepts every identifier
is_valid_ocid_m(ocid, pattern) == TRUE

is_valid_ocid(ocid, pattern) == OcidPatternMatch(pattern, ocid)

\* normalize_region without the test for a canonical region
normalize_region_m(region) == REGION_MAPPING(region)

normalize_region(region) ==
    IF REGION_PATTERN(region) THEN region ELSE REGION_MAPPING(region)

\* split('.')[3]; the callers have checked the pattern, so it exists
RegionSegment(ocid) == Split(ocid)[4]

(* ------------------------------ inputs -------------------------------- *)
DrpgOcid(regionCode) == Join(<<s_ocid1, s_drprotectiongroup, s_oc1, regionCode, s_u1>>)

TopicOcid(regionCode) == Join(<<s_ocid1, s_onstopic, s_oc1, regionCode, s_u3>>)

\* the identifier the vendor reports as the peer of a PRIMARY group
PeerOcid == Join(<<s_ocid1, s_drprotectiongroup, s_oc1, s_phx, s_u2>>)

\* values of --drpg-ocid: well formed (short code, canonical region, unknown
\* code) and malformed (four segments, wrong resource type)
DrpgOcidInputs ==
    { DrpgOcid(s_iad), DrpgOcid(s_us_ashburn_1), DrpgOcid(s_fra),
      Join(<<s_ocid1, s_drprotectiongroup, s_oc1, s_iad>>),
      TopicOcid(s_iad) }

\* values of --ons-topic-ocid: absent, well formed (known and unknown region
\* code) and malformed (empty last segment)
TopicOcidInputs ==
    { NoneStr, TopicOcid(s_phx), TopicOcid(s_fra),
      Join(<<s_ocid1, s_onstopic, s_oc1, s_phx, <<>> >>) }

\* peer_region values the vendor reports
PeerRegions == { s_us_phoenix_1, s_phx, s_fra }

Roles == { "UNCONFIGURED", "PRIMARY", "STANDBY" }

GroupStates == { "ACTIVE", "INACTIVE" }

TransitionalStates == { "CREATING", "UPDATING", "DELETING" }

PlanStates == TransitionalStates \cup { "ACTIVE", "INACTIVE" }

PlanTypes == DrPlanType \cup { "BOGUS" }

PlanId(i) == <<"plan1", "plan2", "plan3", "plan4", "plan5">>[i]

ExecId(i) == <<"exec1", "exec2", "exec3", "exec4", "exec5">>[i]

DisplayName(ocid) == IF ocid = PeerOcid THEN "peer-group" ELSE "group"

\* the (type, state) pairs of listed plans: every type for an ACTIVE plan;
\* the type of a plan in another state is never read, so one type stands
\* for all
PlanKinds ==
    (PlanTypes \X {"ACTIVE"}) \cup ({"SWITCHOVER"} \X (PlanStates \ {"ACTIVE"}))

\* what list_dr_plans can return: up to MaxPlans plans, in the vendor's order
PlanListings ==
    UNION { { [i \in 1..n |-> [id |-> PlanId(i), type |-> f[i][1],
                               lifecycle_state |-> f[i][2]]] :
              f \in [1..n -> PlanKinds] } : n \in 0..MaxPlans }

\* what get_dr_protection_group can return for an identifier
Snapshots(ocid) ==
    { [id |-> ocid, display_name |-> DisplayName(ocid), role |-> r,
       lifecycle_state |-> st, peer_id |-> PeerOcid, peer_region |-> pr] :
      r \in Roles, st \in GroupStates, pr \in PeerRegions }

(* ------------------------------ state --------------------------------- *)
VARIABLES
    drpg_ocid,        \* argument of run_prechecks
    topic_ocid,       \* argument of run_prechecks, NoneStr when not given
    pc,               \* position of the control flow
    ret,              \* line of the pending call of send_notification
    notif,            \* its arguments drpg_name, drpg_ocid and the body read
    region,           \* local region of run_prechecks
    region_file,      \* local region_file of run_prechecks (a path)
    files,            \* region files on disk, each named by its identifier
    error_log_exists, \* the per-run error log is on disk
    dr_client,        \* region the DR client is configured for
    peer_ocid,        \* local peer_ocid of run_prechecks
    standby_ocid,
    standby_name,
    listed_transitional, \* transitional states in the unfiltered listing
    dr_plans,         \* result of list_active_dr_plans
    idx,              \* position of the for loop in dr_plans
    log,              \* records emitted through the logger, in order
    calls,            \* vendor calls made, in order
    exit_status,      \* -1 while running
    exit_line,        \* source line of the statement that ended the process
    exit_kind,        \* "sys.exit", "uncaught" or "return"
    notify_calls,     \* number of calls of send_notification so far
    nr_in,            \* a region token handed to normalize_region on its own
    nr_out            \* the results of normalize_region on it, in order

ctl == <<pc, ret, notif, exit_status, exit_line, exit_kind, notify_calls>>

probe == <<nr_in, nr_out>>

args == <<drpg_ocid, topic_ocid>>

standby == <<peer_ocid, standby_ocid, standby_name>>

vars == <<drpg_ocid, topic_ocid, pc, ret, notif, region, region_file, files,
          error_log_exists, dr_client, peer_ocid, standby_ocid, standby_name,
          listed_transitional, dr_plans, idx, log, calls, exit_status,
          exit_line, exit_kind, notify_calls, nr_in, nr_out>>

NoPlans == [kind |-> "unset", state |-> "", items |-> <<>>]

NoNotif == [drpg_name |-> "", drpg_ocid |-> NoneStr, content |-> <<>>]

Init ==
    /\ drpg_ocid \in DrpgOcidInputs
    /\ topic_ocid \in TopicOcidInputs
    /\ pc = "start"
    /\ ret = 0
    /\ notif = NoNotif
    /\ region = NoneStr
    /\ region_file = NoneStr
    /\ files = {}
    /\ error_log_exists = FALSE
    /\ dr_client = NoneStr
    /\ peer_ocid = NoneStr
    /\ standby_ocid = NoneStr
    /\ standby_name = ""
    /\ listed_transitional = <<>>
    /\ dr_plans = NoPlans
    /\ idx = 0
    /\ log = <<>>
    /\ calls = <<>>
    /\ exit_status = -1
    /\ exit_line = 0
    /\ exit_kind = "running"
    /\ notify_calls = 0
    /\ nr_in = NoneStr
    /\ nr_out = <<>>

(* ------------------------------ logging ------------------------------- *)
Rec(level, msg, arg) == [level |-> level, msg |-> msg, arg |-> arg]

IsError(r) == r.level = "ERROR"

\* contents of the error log: the ERROR records only (LevelFilter)
ErrorLogText(l) == SelectSeq(l, IsError)

(* ------------------------------ control ------------------------------- *)
Goto(p) ==
    /\ pc' = p
    /\ UNCHANGED <<ret, notif, exit_status, exit_line, exit_kind, notify_calls>>

\* the process ends: sys.exit(status), an uncaught exception (the
\* interpreter exits with status 1) or the return of run_prechecks
Exit(status, line, kind) ==
    /\ pc' = "done"
    /\ exit_status' = status
    /\ exit_line' = line
    /\ exit_kind' = kind
    /\ UNCHANGED <<ret, notif, notify_calls>>

CallNotify(line, name, ocid) ==
    /\ pc' = "notify"
    /\ ret' = line
    /\ notif' = [drpg_name |-> name, drpg_ocid |-> ocid, content |-> <<>>]
    /\ notify_calls' = notify_calls + 1
    /\ UNCHANGED <<exit_status, exit_line, exit_kind>>

\* ErrorExit with sys.exit() in place of sys.exit(1)
ErrorExit_m(line, fs, rf, name, ocid) ==
    IF rf \notin fs
    THEN /\ files' = fs
         /\ Exit(1, line - 3, "uncaught")
    ELSE /\ files' = fs \ {rf}
         /\ IF topic_ocid # NoneStr
            THEN CallNotify(line, name, ocid)
            ELSE Exit(0, line, "sys.exit")

\* an error-exit of run_prechecks: region_file.unlink(), then
\* send_notification if a topic was given, then sys.exit(1) at `line`
ErrorExit(line, fs, rf, name, ocid) ==
    IF rf \notin fs
    THEN /\ files' = fs
         /\ Exit(1, line - 3, "uncaught")
    ELSE /\ files' = fs \ {rf}
         /\ IF topic_ocid # NoneStr
            THEN CallNotify(line, name, ocid)
            ELSE Exit(1, line, "sys.exit")

(* ------------------------------ OCI interactions ---------------------- *)
\* the record of a get_dr_protection_group call, with the role and state of
\* the snapshot it returned
GetCall(ocid, client, r) ==
    [op |-> "get_dr_protection_group", id |-> ocid, region |-> client,
     ok |-> r.ok,
     role |-> IF r.ok THEN r.data.role ELSE "",
     lifecycle_state |-> IF r.ok THEN r.data.lifecycle_state ELSE ""]

\* get_drpg_details: the response, or None after logging the error
get_drpg_details(ocid, client, r) ==
    [result |-> r,
     log |-> IF r.ok THEN <<>>
             ELSE <<Rec("ERROR", "Service error", "")>>,
     calls |-> <<GetCall(ocid, client, r)>>]

NoResponse == [ok |-> FALSE]

\* a response of which the caller reads no field itself (it is handed to
\* oci.wait_until)
PolledResponse == [ok |-> TRUE, data |-> [role |-> "", lifecycle_state |-> ""]]

Responses(ocid) == { [ok |-> TRUE, data |-> d] : d \in Snapshots(ocid) }

IsActivePlan(p) == p.lifecycle_state = "ACTIVE"

\* the membership test of line 141 with DELETING left out of the set
IsTransitionalPlan_m(p) == p.lifecycle_state \in {"CREATING", "UPDATING"}

\* line 141: plan.lifecycle_state in transitional_states
IsTransitionalPlan(p) == p.lifecycle_state \in TransitionalStates

ListCall(ocid, client, filter, ok) ==
    [op |-> "list_dr_plans", id |-> ocid, region |-> client, ok |-> ok,
     lifecycle_state |-> filter]

\* list_active_dr_plans on a vendor that holds `listing`; o tells which of the
\* two list_dr_plans calls fails, if any.  The result is None, the state of
\* the first transitional plan, or the ACTIVE plans in the vendor's order.
list_active_dr_plans(ocid, client, listing, o) ==
    LET trans == SelectSeq(listing, IsTransitionalPlan)
        failed == Rec("ERROR", "Failed to list DR plans", "")
    IN  IF o = "raise_all"
        THEN [kind |-> "None", state |-> "", items |-> <<>>,
              log |-> <<failed>>,
              calls |-> <<ListCall(ocid, client, "", FALSE)>>]
        ELSE IF trans # <<>>
        THEN [kind |-> "str", state |-> trans[1].lifecycle_state,
              items |-> <<>>,
              log |-> <<Rec("ERROR", "Found transitional plan",
                            trans[1].lifecycle_state)>>,
              calls |-> <<ListCall(ocid, client, "", TRUE)>>]
        ELSE IF o = "raise_active"
        THEN [kind |-> "None", state |-> "", items |-> <<>>,
              log |-> <<failed>>,
              calls |-> <<ListCall(ocid, client, "", TRUE),
                          ListCall(ocid, client, "ACTIVE", FALSE)>>]
        ELSE [kind |-> "list", state |-> "",
              items |-> SelectSeq(listing, IsActivePlan),
              log |-> <<Rec("INFO", "Found active DR plans", "")>>,
              calls |-> <<ListCall(ocid, client, "", TRUE),
                          ListCall(ocid, client, "ACTIVE", TRUE)>>]

(* ------------------------------ send_notification --------------------- *)
\* error-exits whose sys.exit(1) is missing, so that the run goes on
ReturnToCaller_m ==
    IF ret = 305
    THEN Goto("cleanup")
    ELSE /\ pc' = "finalize"
         /\ UNCHANGED <<ret, notif, exit_status, exit_line, exit_kind, notify_calls>>

\* control returns to the caller of send_notification: the error-exits go on
\* to their sys.exit(1), the call of line 305 goes on to the cleanup
ReturnToCaller ==
    IF ret = 305
    THEN Goto("cleanup")
    ELSE Exit(1, ret, "sys.exit")

NotifyFailed == Rec("ERROR", "Failed to send notification", "")

\* lines 155-166: read the error log, resolve the topic's region, write the
\* region file and build the client
send_notification_begin ==
    /\ pc = "notify"
    /\ \E o \in {"ok", "read_fails", "client_fails"} :
        LET topic_region == normalize_region(RegionSegment(topic_ocid)) IN
        IF o = "read_fails" \/ ~error_log_exists
        THEN /\ log' = log \o <<NotifyFailed>>
             /\ ReturnToCaller
             /\ UNCHANGED files
        ELSE IF topic_region = NoneStr
        THEN \* sys.exit raises SystemExit, which `except Exception` lets through
             /\ log' = log \o <<Rec("ERROR", "Unable to determine valid region for the topic", "")>>
             /\ Exit(1, 162, "sys.exit")
             /\ UNCHANGED files
        ELSE IF o = "client_fails"
        THEN /\ files' = files \cup {topic_ocid}
             /\ log' = log \o <<NotifyFailed>>
             /\ ReturnToCaller
        ELSE /\ files' = files \cup {topic_ocid}
             /\ log' = log
             /\ pc' = "publish"
             /\ notif' = [notif EXCEPT !.content = ErrorLogText(log)]
             /\ UNCHANGED <<ret, exit_status, exit_line, exit_kind, notify_calls>>
    /\ UNCHANGED <<args, probe, region, region_file, error_log_exists, dr_client,
                   standby, listed_transitional, dr_plans, idx, calls>>

PublishCall(ok) ==
    [op |-> "publish_message", id |-> topic_ocid,
     region |-> normalize_region(RegionSegment(topic_ocid)), ok |-> ok,
     body |-> <<notif.drpg_name, notif.drpg_ocid, notif.content>>]

\* lines 168-178 without the except clause of lines 180-181: a failed publish
\* propagates out of send_notification and ends the process
send_notification_publish_m ==
    /\ pc = "publish"
    /\ \E ok \in BOOLEAN :
        /\ calls' = Append(calls, PublishCall(ok))
        /\ log' = log
        /\ IF ok
           THEN /\ files' = files \ {topic_ocid}
                /\ ReturnToCaller
           ELSE /\ files' = files
                /\ Exit(1, 170, "uncaught")
    /\ UNCHANGED <<args, probe, region, region_file, error_log_exists, dr_client,
                   standby, listed_transitional, dr_plans, idx>>

\* lines 168-181: publish, then delete the region file
send_notification_publish ==
    /\ pc = "publish"
    /\ \E ok \in BOOLEAN :
        /\ calls' = Append(calls, PublishCall(ok))
        /\ IF ok
           THEN /\ files' = files \ {topic_ocid}
                /\ log' = log
           ELSE /\ files' = files
                /\ log' = log \o <<NotifyFailed>>
        /\ ReturnToCaller
    /\ UNCHANGED <<args, probe, region, region_file, error_log_exists, dr_client,
                   standby, listed_transitional, dr_plans, idx>>

(* ------------------------------ run_prechecks ------------------------- *)
\* lines 186-199: set up the logger, validate both identifiers, resolve the
\* region of the DRPG
Validate ==
    /\ pc = "start"
    /\ error_log_exists' = TRUE
    /\ IF ~is_valid_ocid(drpg_ocid, DRPG_OCID_PATTERN)
       THEN /\ log' = log \o <<Rec("ERROR", "Invalid DRPG OCID format", "")>>
            /\ Exit(1, 190, "sys.exit")
            /\ UNCHANGED region
       ELSE IF topic_ocid # NoneStr /\ ~is_valid_ocid(topic_ocid, TOPIC_OCID_PATTERN)
       THEN /\ log' = log \o <<Rec("ERROR", "Invalid Notification Topic OCID format", "")>>
            /\ Exit(1, 194, "sys.exit")
            /\ UNCHANGED region
       ELSE LET r == normalize_region(RegionSegment(drpg_ocid)) IN
            /\ region' = r
            /\ IF r = NoneStr
               THEN /\ log' = log \o <<Rec("ERROR", "Unable to determine region for DRPG", "")>>
                    /\ Exit(1, 199, "sys.exit")
               ELSE /\ log' = log
                    /\ Goto("prepare")
    /\ UNCHANGED <<args, probe, region_file, files, dr_client, standby,
                   listed_transitional, dr_plans, idx, calls>>

\* lines 201-204: write the region file, build the signer and the client;
\* the signer or the client may raise, which nothing catches
Prepare ==
    /\ pc = "prepare"
    /\ region_file' = drpg_ocid
    /\ files' = files \cup {drpg_ocid}
    /\ \E ok \in BOOLEAN :
        IF ok
        THEN /\ dr_client' = region
             /\ Goto("fetch")
        ELSE /\ dr_client' = dr_client
             /\ Exit(1, 202, "uncaught")
    /\ UNCHANGED <<args, probe, region, error_log_exists, standby,
                   listed_transitional, dr_plans, idx, log, calls>>

\* line 243 taking the identifier the run was started with
StandbyOcid_m(d) == drpg_ocid

\* line 243: standby_ocid = drpg.data.id
StandbyOcid(d) == d.id

\* lines 243-248 going on to the listing whatever the lifecycle state is
CheckStandby_m(d, l, c, fs, rf) ==
    /\ standby_ocid' = StandbyOcid(d)
    /\ standby_name' = d.display_name
    /\ calls' = c
    /\ log' = l \o <<Rec("INFO", "Standby DRPG is", d.lifecycle_state)>>
    /\ files' = fs
    /\ Goto("list")

\* lines 243-254 on the snapshot d that has become the standby view; l, c,
\* fs and rf are the log, calls, files and region_file so far
CheckStandby(d, l, c, fs, rf) ==
    /\ standby_ocid' = StandbyOcid(d)
    /\ standby_name' = d.display_name
    /\ calls' = c
    /\ IF d.lifecycle_state # "ACTIVE"
       THEN /\ log' = l \o <<Rec("INFO", "Standby DRPG is", d.lifecycle_state),
                             Rec("ERROR", "Standby DRPG is not active", "")>>
            /\ ErrorExit(254, fs, rf, d.display_name, StandbyOcid(d))
       ELSE /\ log' = l \o <<Rec("INFO", "Standby DRPG is", d.lifecycle_state)>>
            /\ files' = fs
            /\ Goto("list")

\* an unlink that leaves the file where it is
region_file_unlink_m(fs, rf) == fs

\* region_file.unlink() on a file that exists
region_file_unlink(fs, rf) == fs \ {rf}

\* lines 206-232 and, for a group that is not PRIMARY, 243-254
FetchDrpg ==
    /\ pc = "fetch"
    /\ \E r \in {NoResponse} \cup Responses(drpg_ocid), clientOk \in BOOLEAN :
        LET g == get_drpg_details(drpg_ocid, dr_client, r)
            l == log \o g.log
            c == calls \o g.calls
        IN
        IF ~r.ok
        THEN /\ log' = l
             /\ calls' = c
             /\ ErrorExit(211, files, region_file, "", drpg_ocid)
             /\ UNCHANGED <<region, region_file, dr_client, standby>>
        ELSE IF r.data.role = "UNCONFIGURED"
        THEN /\ log' = l \o <<Rec("ERROR", "DRPG is unconfigured", "")>>
             /\ calls' = c
             /\ ErrorExit(222, files, region_file, r.data.display_name, drpg_ocid)
             /\ peer_ocid' = r.data.peer_id
             /\ UNCHANGED <<region, region_file, dr_client, standby_ocid, standby_name>>
        ELSE IF r.data.role = "PRIMARY"
        THEN LET l1 == l \o <<Rec("WARNING", "DRPG is PRIMARY, switching to PEER", "")>>
                 fs1 == region_file_unlink(files, region_file)   \* line 226
                 peer == normalize_region(r.data.peer_region)
             IN
             /\ calls' = c
             /\ region' = peer
             /\ peer_ocid' = r.data.peer_id
             /\ UNCHANGED <<standby_ocid, standby_name>>
             /\ IF region_file \notin files
                THEN /\ log' = l1
                     /\ files' = files
                     /\ Exit(1, 226, "uncaught")
                     /\ UNCHANGED <<region_file, dr_client>>
                ELSE IF peer = NoneStr
                THEN /\ log' = l1 \o <<Rec("ERROR", "Unknown peer region", "")>>
                     /\ UNCHANGED <<region_file, dr_client>>
                     /\ IF region_file \notin fs1      \* line 230
                        THEN /\ files' = fs1
                             /\ Exit(1, 230, "uncaught")
                        ELSE /\ files' = fs1 \ {region_file}
                             /\ Exit(1, 231, "sys.exit")
                ELSE /\ log' = l1
                     /\ region_file' = r.data.peer_id
                     /\ files' = fs1 \cup {r.data.peer_id}
                     /\ IF clientOk
                        THEN /\ dr_client' = peer
                             /\ Goto("fetch_peer")
                        ELSE /\ dr_client' = dr_client
                             /\ Exit(1, 234, "uncaught")
        ELSE /\ CheckStandby(r.data, l, c, files, region_file)
             /\ peer_ocid' = r.data.peer_id
             /\ UNCHANGED <<region, region_file, dr_client>>
    /\ UNCHANGED <<args, probe, error_log_exists, listed_transitional, dr_plans, idx>>

\* lines 235-254: fetch the peer, which becomes the standby view
FetchPeer ==
    /\ pc = "fetch_peer"
    /\ \E r \in {NoResponse} \cup Responses(peer_ocid) :
        LET g == get_drpg_details(peer_ocid, dr_client, r)
            l == log \o g.log
            c == calls \o g.calls
        IN
        IF ~r.ok
        THEN /\ log' = l \o <<Rec("ERROR", "Failed to get peer DRPG details", "")>>
             /\ calls' = c
             /\ ErrorExit(241, files, region_file, "", peer_ocid)
             /\ UNCHANGED <<standby_ocid, standby_name>>
        ELSE CheckStandby(r.data, l, c, files, region_file)
    /\ UNCHANGED <<args, probe, region, region_file, error_log_exists, dr_client,
                   peer_ocid, listed_transitional, dr_plans, idx>>

InTransition(p) == p.lifecycle_state \in {"CREATING", "UPDATING", "DELETING"}

\* the transitional states in a listing, in the vendor's order
TransitionalOf(listing) ==
    LET t == SelectSeq(listing, InTransition) IN
        [i \in 1..Len(t) |-> t[i].lifecycle_state]

\* PlanListOutcome without the check of line 258 for an empty list
PlanListOutcome_m(res) ==
    IF res.kind = "None" THEN "TypeError"
    ELSE IF res.kind = "str" THEN "transitional"
    ELSE "loop"

\* the branch lines 258-271 take on the result of list_active_dr_plans:
\* len(None) raises TypeError, an empty list and a string are error-exits,
\* a list is iterated
PlanListOutcome(res) ==
    IF res.kind = "None" THEN "TypeError"
    ELSE IF res.kind = "list" /\ Len(res.items) = 0 THEN "empty"
    ELSE IF res.kind = "str" THEN "transitional"
    ELSE "loop"

\* lines 256-271: list the plans and take the error-exits on the result
ListPlans ==
    /\ pc = "list"
    /\ \E listing \in PlanListings, o \in {"ok", "raise_all", "raise_active"} :
        LET res == list_active_dr_plans(standby_ocid, dr_client, listing, o)
            l == log \o res.log
            branch == PlanListOutcome(res)
        IN
        /\ calls' = calls \o res.calls
        /\ dr_plans' = [kind |-> res.kind, state |-> res.state, items |-> res.items]
        /\ listed_transitional' =
               IF o = "raise_all" THEN <<>> ELSE TransitionalOf(listing)
        /\ IF branch = "TypeError"
           THEN \* len(None) raises TypeError
                /\ log' = l
                /\ files' = files
                /\ idx' = idx
                /\ Exit(1, 258, "uncaught")
           ELSE IF branch = "empty"
           THEN /\ log' = l \o <<Rec("ERROR", "No Active DR plans found", "")>>
                /\ idx' = idx
                /\ ErrorExit(263, files, region_file, standby_name, standby_ocid)
           ELSE IF branch = "transitional"
           THEN /\ log' = l \o <<Rec("ERROR", "First transitional state found", res.state)>>
                /\ idx' = idx
                /\ ErrorExit(270, files, region_file, standby_name, standby_ocid)
           ELSE /\ log' = l
                /\ files' = files
                /\ idx' = 1
                /\ IF Len(res.items) = 0 THEN Goto("finalize") ELSE Goto("create")
    /\ UNCHANGED <<args, probe, region, region_file, error_log_exists, dr_client,
                   standby>>

\* the precheck options variant of lines 276-283
PrecheckOptions(type) ==
    IF type = "SWITCHOVER" THEN "SwitchoverPrecheckExecutionOptionDetails"
    ELSE IF type = "FAILOVER" THEN "FailoverPrecheckExecutionOptionDetails"
    ELSE IF type = "START_DRILL" THEN "StartDrillPrecheckExecutionOptionDetails"
    ELSE "StopDrillPrecheckExecutionOptionDetails"

CreateCall(plan, ok) ==
    [op |-> "create_dr_plan_execution", id |-> plan.id, region |-> dr_client,
     ok |-> ok, options |-> PrecheckOptions(plan.type)]

\* the loop walking the list from its end
CurrentPlan_m == dr_plans.items[Len(dr_plans.items) - idx + 1]

\* `for plan in dr_plans`: the plan of the current iteration
CurrentPlan == dr_plans.items[idx]

\* a conversion that accepts any value
IsDrPlanType_m(value) == TRUE

\* DrPlanType(value) returns a member for a value of the enumeration and
\* raises ValueError for any other
IsDrPlanType(value) == value \in DrPlanType

\* lines 272-293 for the plan at idx: DrPlanType(plan.type) raises ValueError
\* for a value outside the enumeration; create_dr_plan_execution may raise
CreateExecution ==
    /\ pc = "create"
    /\ LET plan == CurrentPlan IN
       IF ~IsDrPlanType(plan.type)
       THEN /\ log' = log
            /\ calls' = calls
            /\ Exit(1, 273, "uncaught")
       ELSE \E ok \in BOOLEAN :
            /\ log' = log \o <<Rec("INFO", "Running precheck for", plan.id)>>
            /\ calls' = Append(calls, CreateCall(plan, ok))
            /\ IF ok THEN Goto("wait_exec") ELSE Exit(1, 288, "uncaught")
    /\ UNCHANGED <<args, probe, region, region_file, files, error_log_exists,
                   dr_client, standby, listed_transitional, dr_plans, idx>>

ExecCall(i, what, ok) ==
    [op |-> what, id |-> ExecId(i), region |-> dr_client, ok |-> ok]

\* line 295: fetch the execution and wait until it is IN_PROGRESS
WaitInProgress ==
    /\ pc = "wait_exec"
    /\ \E o \in {"ok", "get_raises", "wait_raises"} :
        /\ calls' = calls \o
             (IF o = "get_raises"
              THEN <<ExecCall(idx, "get_dr_plan_execution", FALSE)>>
              ELSE <<ExecCall(idx, "get_dr_plan_execution", TRUE),
                     ExecCall(idx, "wait_until_execution", o = "ok")>>)
        /\ IF o = "ok" THEN Goto("wait_drpg") ELSE Exit(1, 295, "uncaught")
    /\ UNCHANGED <<args, probe, region, region_file, files, error_log_exists,
                   dr_client, standby, listed_transitional, dr_plans, idx, log>>

WaitGroupCall(ok) ==
    [op |-> "wait_until_drpg", id |-> standby_ocid, region |-> dr_client,
     ok |-> ok]

\* line 296: fetch the standby group and wait until it is ACTIVE; a failed
\* fetch hands None to wait_until, which raises
WaitDrpgActive ==
    /\ pc = "wait_drpg"
    /\ \E o \in {"ok", "get_fails", "wait_raises"} :
        LET r == IF o = "get_fails" THEN NoResponse ELSE PolledResponse
            g == get_drpg_details(standby_ocid, dr_client, r)
        IN
        /\ log' = log \o g.log
        /\ calls' = calls \o g.calls \o
              (IF o = "get_fails" THEN <<>> ELSE <<WaitGroupCall(o = "ok")>>)
        /\ IF o = "ok" THEN Goto("final_status") ELSE Exit(1, 296, "uncaught")
    /\ UNCHANGED <<args, probe, region, region_file, files, error_log_exists,
                   dr_client, standby, listed_transitional, dr_plans, idx>>

ExecutionStates == { "SUCCEEDED", "FAILED" }

\* lines 297-302 and the step of the for loop
FinalStatus ==
    /\ pc = "final_status"
    /\ \E o \in {"raises"} \cup ExecutionStates :
        LET plan == CurrentPlan IN
        /\ calls' = Append(calls, ExecCall(idx, "get_dr_plan_execution", o # "raises"))
        /\ IF o = "raises"
           THEN /\ log' = log
                /\ idx' = idx
                /\ Exit(1, 297, "uncaught")
           ELSE /\ log' = log \o
                     <<IF o = "SUCCEEDED"
                       THEN Rec("INFO", "Precheck passed", plan.id)
                       ELSE Rec("ERROR", "Precheck failed", plan.id)>>
                /\ idx' = idx + 1
                /\ IF idx < Len(dr_plans.items)
                   THEN Goto("create")
                   ELSE Goto("finalize")
    /\ UNCHANGED <<args, probe, region, region_file, files, error_log_exists,
                   dr_client, standby, listed_transitional, dr_plans>>

\* a test that takes the error log to be there and filled
ErrorLogNonEmpty_m == TRUE

\* the error log exists and is not empty
ErrorLogNonEmpty == error_log_exists /\ ErrorLogText(log) # <<>>

\* lines 304-305
Finalize ==
    /\ pc = "finalize"
    /\ IF ErrorLogNonEmpty /\ topic_ocid # NoneStr
       THEN CallNotify(305, standby_name, standby_ocid)
       ELSE Goto("cleanup")
    /\ UNCHANGED <<args, probe, region, region_file, files, error_log_exists,
                   dr_client, standby, listed_transitional, dr_plans, idx,
                   log, calls>>

\* lines 307-310, then run_prechecks returns and the process ends
Cleanup ==
    /\ pc = "cleanup"
    /\ files' = files \ {region_file}
    /\ error_log_exists' = FALSE
    /\ Exit(0, 310, "return")
    /\ UNCHANGED <<args, probe, region, region_file, dr_client, standby,
                   listed_transitional, dr_plans, idx, log, calls>>

Next ==
    \/ Validate
    \/ Prepare
    \/ FetchDrpg
    \/ FetchPeer
    \/ ListPlans
    \/ CreateExecution
    \/ WaitInProgress
    \/ WaitDrpgActive
    \/ FinalStatus
    \/ Finalize
    \/ Cleanup
    \/ send_notification_begin
    \/ send_notification_publish

Spec == Init /\ [][Next]_vars

(* ------------------------------ observations -------------------------- *)
IsCreate(c) == c.op = "create_dr_plan_execution"

IsPublish(c) == c.op = "publish_message"

IsGetGroup(c) == c.op = "get_dr_protection_group"

IsList(c) == c.op = "list_dr_plans"

IsPassFail(r) == r.msg \in {"Precheck passed", "Precheck failed"}

CreateCalls == SelectSeq(calls, IsCreate)

PublishCalls == SelectSeq(calls, IsPublish)

PassFailLines == SelectSeq(log, IsPassFail)

Terminated == pc = "done"

TopicGiven == topic_ocid # NoneStr

\* send_notification has been called in this run
NotifyCalled == ret # 0

\* the plan loop has been entered with a list of active plans
InLoop == dr_plans.kind = "list" /\ Len(dr_plans.items) > 0

(* ------------------------------ C1 ------------------------------------ *)
\* C1: when the process has ended, however it ended, neither the region file
\* written for the DRPG nor the one written for the peer is still on disk.
C1_NoLeakedRegionFile ==
    Terminated => files \cap {drpg_ocid, peer_ocid} = {}

(* ------------------------------ C2 ------------------------------------ *)
\* the statements that end the error-exit branches C2 lists: invalid
\* identifier, unresolvable DRPG region, DRPG not found, UNCONFIGURED,
\* unresolvable peer region (the second unlink of line 230 raises before the
\* sys.exit of 231), peer not found, standby not ACTIVE, no active plans,
\* transitional plan, unknown plan type (the ValueError of line 273 comes
\* before the sys.exit of 286)
C2Branches == {190, 199, 211, 222, 230, 231, 241, 254, 263, 270, 273, 286}

\* the error-exit branch a terminated run took: the pending call of
\* send_notification names it when the run ended inside the notifier
BranchTaken == IF ret # 0 /\ exit_line = 162 THEN ret ELSE exit_line

\* C2: a run that ended on one of the listed error-exits while a topic was
\* supplied has called send_notification before it ended.
C2_ErrorExitNotifies ==
    (Terminated /\ TopicGiven /\ BranchTaken \in C2Branches) => NotifyCalled

(* ------------------------------ C3 ------------------------------------ *)
\* every active plan has its pass/fail line and the finalization has removed
\* the region file and the error log
Finalized ==
    /\ InLoop
    /\ idx = Len(dr_plans.items) + 1
    /\ Len(PassFailLines) = Len(dr_plans.items)
    /\ region_file \notin files
    /\ ~error_log_exists

\* the conditions of the error-exit branches C3 lists, read off the inputs
\* and the vendor's answers
C3ErrorCondition ==
    \/ ~is_valid_ocid(drpg_ocid, DRPG_OCID_PATTERN)
    \/ TopicGiven /\ ~is_valid_ocid(topic_ocid, TOPIC_OCID_PATTERN)
    \/ normalize_region(RegionSegment(drpg_ocid)) = NoneStr
    \/ \E i \in 1..Len(calls) :
          /\ IsGetGroup(calls[i])
          /\ i <= 2
          /\ \/ ~calls[i].ok
             \/ i = 1 /\ calls[i].role = "UNCONFIGURED"
             \/ calls[i].role # "PRIMARY" /\ calls[i].lifecycle_state # "ACTIVE"
             \/ i = 2 /\ calls[i].lifecycle_state # "ACTIVE"
    \/ Len(calls) >= 1 /\ calls[1].ok /\ calls[1].role = "PRIMARY"
          /\ region = NoneStr
    \/ dr_plans.kind = "list" /\ Len(dr_plans.items) = 0
    \/ dr_plans.kind = "str"

\* C3: a terminated run has status 0 exactly when it iterated over all active
\* plans and finalized, whatever the plans' outcomes, and status 1 whenever
\* the condition of one of the listed error-exit branches arose.
C3_ExitStatus ==
    Terminated =>
        /\ exit_status \in {0, 1}
        /\ (exit_status = 0) <=> Finalized
        /\ C3ErrorCondition => exit_status = 1
        /\ BranchTaken \in {190, 194, 199, 211, 222, 230, 231, 241, 254, 263, 270}
              => C3ErrorCondition /\ exit_status = 1

\* a run over two plans, one of which failed its precheck, ended with 0
C3_Witness ==
    /\ Terminated
    /\ exit_status = 0
    /\ Len(dr_plans.items) = 2
    /\ \E i \in 1..Len(log) : log[i].msg = "Precheck failed"

(* ------------------------------ C4 ------------------------------------ *)
\* the first fetch returned a PRIMARY group whose peer region resolved
SwitchedToPeer ==
    /\ Len(calls) >= 1
    /\ calls[1].ok
    /\ calls[1].role = "PRIMARY"
    /\ region # NoneStr

\* the calls that name a protection group
IsGroupCall(c) ==
    c.op \in {"get_dr_protection_group", "list_dr_plans", "wait_until_drpg"}

\* C4: once a PRIMARY group with a resolvable peer has been fetched, the
\* original region file is gone and the only region file is the peer's, a
\* fetch of the peer through the peer-region client precedes every plan
\* listing, and every later vendor call on a group names the peer through the
\* peer-region client, as does the standby view.
C4_PrimarySwitchesToPeer ==
    SwitchedToPeer =>
        /\ drpg_ocid \notin files
        /\ region_file = peer_ocid
        /\ files \subseteq {peer_ocid, topic_ocid}
        /\ pc \in {"fetch_peer", "list", "create", "wait_exec", "wait_drpg",
                   "final_status", "finalize"} => peer_ocid \in files
        /\ standby_ocid \in {NoneStr, peer_ocid}
        /\ \A j \in 2..Len(calls) :
              /\ ~IsPublish(calls[j]) => calls[j].region = region
              /\ IsGroupCall(calls[j]) => calls[j].id = peer_ocid
              /\ IsList(calls[j]) =>
                    \E i \in 2..(j - 1) :
                        /\ IsGetGroup(calls[i])
                        /\ calls[i].ok
                        /\ calls[i].id = peer_ocid

\* a run that switched to the peer, listed its plans, polled and finished
C4_Witness ==
    /\ SwitchedToPeer
    /\ Terminated
    /\ exit_status = 0
    /\ \E j \in 1..Len(calls) : calls[j].op = "wait_until_drpg"

(* ------------------------------ C5 ------------------------------------ *)
\* the body of a publish call shows the state st
BodyShows(c, st) == \E k \in 1..Len(c.body[3]) : c.body[3][k].arg = st

TopicRegionResolves ==
    TopicGiven /\ normalize_region(RegionSegment(topic_ocid)) # NoneStr

\* send_notification caught a failure
NotifyFailureLogged == \E i \in 1..Len(log) : log[i] = NotifyFailed

\* C5 as stated: a run whose unfiltered listing held a transitional plan ends
\* with status 1 without a create-execution call and, if a topic was given,
\* with a publish call whose body shows the (first) transitional state.
C5_TransitionalAlwaysPublishes ==
    (Terminated /\ listed_transitional # <<>>) =>
        /\ exit_status = 1
        /\ CreateCalls = <<>>
        /\ TopicGiven =>
              \E i \in 1..Len(PublishCalls) :
                  BodyShows(PublishCalls[i], listed_transitional[1])

\* C5 amended: a run whose unfiltered listing held a transitional plan ends
\* with status 1 without a create-execution call; if a topic was given,
\* send_notification is called from the error-exit of line 270 with an error
\* log that shows the first transitional state, every message it publishes
\* shows that state, and it does call publish unless the topic's region is
\* unresolvable or it caught a failure before the publish call.
C5_TransitionalExit ==
    (Terminated /\ listed_transitional # <<>>) =>
        /\ exit_status = 1
        /\ CreateCalls = <<>>
        /\ dr_plans.kind = "str"
        /\ dr_plans.state = listed_transitional[1]
        /\ TopicGiven =>
              /\ ret = 270
              /\ \E k \in 1..Len(log) :
                    IsError(log[k]) /\ log[k].arg = listed_transitional[1]
              /\ \A i \in 1..Len(PublishCalls) :
                    BodyShows(PublishCalls[i], listed_transitional[1])
              /\ (TopicRegionResolves /\ ~NotifyFailureLogged)
                    => Len(PublishCalls) = 1 /\ PublishCalls[1].ok
              /\ ~TopicRegionResolves => PublishCalls = <<>>

\* two transitional plans in different states were listed and the
\* notification went out
C5_Witness ==
    /\ Terminated
    /\ Len(listed_transitional) = 2
    /\ listed_transitional[1] # listed_transitional[2]
    /\ Len(PublishCalls) = 1
    /\ PublishCalls[1].ok

(* ------------------------------ C6 ------------------------------------ *)
\* C6: when the listing gave an empty list of ACTIVE plans, no
\* create-execution call is ever made and the run ends with status 1.
C6_NoActivePlans ==
    (dr_plans.kind = "list" /\ Len(dr_plans.items) = 0) =>
        /\ CreateCalls = <<>>
        /\ pc \in {"notify", "publish", "done"}
        /\ Terminated => exit_status = 1

\* the run ended on the error-exit for an empty list, after both listings
C6_Witness ==
    /\ Terminated
    /\ dr_plans.kind = "list"
    /\ Len(dr_plans.items) = 0
    /\ exit_line = 263
    /\ \E j \in 1..Len(calls) :
          IsList(calls[j]) /\ calls[j].lifecycle_state = "ACTIVE" /\ calls[j].ok

(* ------------------------------ C7 ------------------------------------ *)
IsLoopLine(r) == r.msg = "Running precheck for" \/ IsPassFail(r)

\* the lines the loop logs: one when it starts on a plan, one pass/fail line
LoopLines == SelectSeq(log, IsLoopLine)

\* position in calls of the n-th create-execution call
RECURSIVE CreatePos(_, _)
CreatePos(n, from) ==
    IF IsCreate(calls[from])
    THEN IF n = 1 THEN from ELSE CreatePos(n - 1, from + 1)
    ELSE CreatePos(n, from + 1)

\* calls[i] is the fetch of the final status of execution e: a successful
\* get_dr_plan_execution that follows the wait for the group
IsFinalFetch(i, e) ==
    /\ i > 1
    /\ calls[i].op = "get_dr_plan_execution"
    /\ calls[i].ok
    /\ calls[i].id = e
    /\ calls[i - 1].op = "wait_until_drpg"

\* C7: the create-execution calls made so far are one per plan, for the
\* plans in the order of the listing; the loop's log lines alternate start
\* and pass/fail line plan by plan; and before the create call for a plan the
\* final status of the plan before it has been fetched.
C7_SequentialInListingOrder ==
    InLoop =>
        LET n == Len(CreateCalls) IN
        /\ n <= Len(dr_plans.items)
        /\ \A j \in 1..n : CreateCalls[j].id = dr_plans.items[j].id
        /\ Len(PassFailLines) \in {n - 1, n} \cup {0}
        /\ Len(PassFailLines) <= n
        /\ \A k \in 1..Len(LoopLines) :
              IF k % 2 = 1
              THEN /\ LoopLines[k].msg = "Running precheck for"
                   /\ LoopLines[k].arg = dr_plans.items[(k + 1) \div 2].id
              ELSE /\ IsPassFail(LoopLines[k])
                   /\ LoopLines[k].arg = dr_plans.items[k \div 2].id
        /\ \A j \in 2..n :
              /\ Len(PassFailLines) >= j - 1
              /\ \E i \in 1..(CreatePos(j, 1) - 1) :
                    /\ i > CreatePos(j - 1, 1)
                    /\ IsFinalFetch(i, ExecId(j - 1))

\* a finished run over two plans of different types
C7_Witness ==
    /\ Terminated
    /\ exit_status = 0
    /\ Len(dr_plans.items) = 2
    /\ Len(CreateCalls) = 2
    /\ dr_plans.items[1].type # dr_plans.items[2].type

(* ------------------------------ C8 ------------------------------------ *)
HasCreate(plan) ==
    \E i \in 1..Len(calls) : IsCreate(calls[i]) /\ calls[i].id = plan.id

HasPassFail(plan) ==
    \E i \in 1..Len(PassFailLines) : PassFailLines[i].arg = plan.id

\* C8: in a terminated run over a list of active plans of known types, every
\* plan after one for which create-execution was called has had its own
\* create-execution call and has its pass/fail line.
C8_LoopContinues ==
    (Terminated /\ InLoop
        /\ \A k \in 1..Len(dr_plans.items) : dr_plans.items[k].type \in DrPlanType)
    => \A i, j \in 1..Len(dr_plans.items) :
          (i < j /\ HasCreate(dr_plans.items[i]))
              => HasCreate(dr_plans.items[j]) /\ HasPassFail(dr_plans.items[j])

(* ------------------------------ C9 ------------------------------------ *)
KnownPlanTypes == {"SWITCHOVER", "FAILOVER", "START_DRILL", "STOP_DRILL"}

\* C9: when the plan at position k of the active list has a type outside the
\* four known ones, the loop never gets past k, no create-execution call is
\* made and no line logged for plan k or a later plan, the run ends with
\* status 1, and a run that reached plan k ended right there, at the
\* conversion of line 273, with the k-1 executions created before.
C9_UnknownTypeTerminates ==
    \A k \in 1..Len(dr_plans.items) :
        (dr_plans.kind = "list" /\ dr_plans.items[k].type \notin KnownPlanTypes) =>
            /\ idx <= k
            /\ \A j \in k..Len(dr_plans.items) :
                  /\ ~HasCreate(dr_plans.items[j])
                  /\ \A i \in 1..Len(log) : log[i].arg # dr_plans.items[j].id
            /\ idx = k => pc \in {"create", "done"}
            /\ Terminated => exit_status = 1
            /\ (Terminated /\ idx = k) =>
                  /\ exit_line = 273
                  /\ exit_kind = "uncaught"
                  /\ Len(CreateCalls) = k - 1

\* the second plan had an unknown type: one execution exists, the run ended
C9_Witness ==
    /\ Terminated
    /\ exit_line = 273
    /\ idx = 2
    /\ Len(CreateCalls) = 1
    /\ CreateCalls[1].ok

(* ------------------------------ C10 ----------------------------------- *)
\* the process ended at a statement of send_notification
EndedInNotifier == Terminated /\ exit_line \in 154..181

\* control came back from send_notification and the caller went on: the
\* error-exits to their own sys.exit(1), the finalization to the cleanup and
\* the return with status 0
CallerWentOn ==
    /\ ret # 305 => exit_line = ret /\ exit_status = 1 /\ exit_kind = "sys.exit"
    /\ ret = 305 =>
          /\ exit_line = 310
          /\ exit_status = 0
          /\ region_file \notin files
          /\ ~error_log_exists

\* C10 as stated: whatever fails inside send_notification, a run that called
\* it did not end inside it, and ended as its caller ends.
C10_NotifierNeverTerminates ==
    (Terminated /\ NotifyCalled) => ~EndedInNotifier /\ CallerWentOn

\* C10 amended: a failure of send_notification in reading the error log,
\* building the client or publishing is caught and control returns to the
\* caller, which ends as it would have; a run ends inside send_notification
\* only at the sys.exit(1) of line 162, with status 1, and only when the
\* topic's region is unresolvable.
C10_NotifierFailure ==
    (Terminated /\ NotifyCalled) =>
        /\ (NotifyFailureLogged \/ PublishCalls # <<>>) => ~EndedInNotifier
        /\ ~EndedInNotifier => CallerWentOn
        /\ EndedInNotifier =>
              /\ exit_line = 162
              /\ exit_kind = "sys.exit"
              /\ exit_status = 1
              /\ ~TopicRegionResolves
        /\ TopicRegionResolves => ~EndedInNotifier

\* the publish of the finalization path failed and the run still ended with 0
C10_Witness ==
    /\ Terminated
    /\ ret = 305
    /\ Len(PublishCalls) = 1
    /\ ~PublishCalls[1].ok
    /\ NotifyFailureLogged
    /\ exit_status = 0

(* ------------------------------ C11 ----------------------------------- *)
\* send_notification is between writing its region file and its return
InNotifierWithFile == pc = "publish"

\* C11: outside send_notification, and when the process has ended, the
\* region file written for the topic's region is not on disk.
C11_TopicFileReleased ==
    ~InNotifierWithFile => topic_ocid \notin files

(* ------------------------------ C12 ----------------------------------- *)
\* the lines of run_prechecks that call region_file.unlink() unguarded
UnlinkLines == {208, 219, 226, 230, 238, 251, 260, 267}

\* C12: no run ends through a failed delete of a region file, i.e. with an
\* exception raised by region_file.unlink() on a file already deleted, and
\* every error-exit branch that was entered ends at its sys.exit(1).
C12_NoFailedDelete ==
    Terminated =>
        /\ ~(exit_kind = "uncaught" /\ exit_line \in UnlinkLines)
        /\ (Len(calls) >= 1 /\ calls[1].ok /\ calls[1].role = "PRIMARY"
              /\ region = NoneStr)
              => exit_line = 231 /\ exit_kind = "sys.exit" /\ exit_status = 1

(* ------------------------------ C13 ----------------------------------- *)
\* the DRPG identifier, or a supplied topic identifier, is malformed
MalformedIdentifier ==
    \/ ~OcidPatternMatch(DRPG_OCID_PATTERN, drpg_ocid)
    \/ TopicGiven /\ ~OcidPatternMatch(TOPIC_OCID_PATTERN, topic_ocid)

\* C13: with a malformed DRPG identifier, or a malformed topic identifier,
\* the run makes no vendor call and writes no region file, and when it has
\* ended it has ended with status 1 at the check that rejected the identifier.
C13_MalformedRejectedFirst ==
    MalformedIdentifier =>
        /\ calls = <<>>
        /\ files = {}
        /\ region_file = NoneStr
        /\ dr_client = NoneStr
        /\ pc \in {"start", "done"}
        /\ Terminated =>
              /\ exit_status = 1
              /\ exit_kind = "sys.exit"
              /\ exit_line \in {190, 194}

\* a well-formed DRPG identifier with a malformed topic was rejected
C13_Witness ==
    /\ Terminated
    /\ OcidPatternMatch(DRPG_OCID_PATTERN, drpg_ocid)
    /\ TopicGiven
    /\ ~OcidPatternMatch(TOPIC_OCID_PATTERN, topic_ocid)
    /\ exit_line = 194

(* ------------------------------ C14 ----------------------------------- *)
\* the run ended by the return of run_prechecks or at a sys.exit
HandledEnd == Terminated /\ exit_kind \in {"sys.exit", "return"}

\* C14: when a run has ended normally or through an error-exit, the error
\* log is no longer on disk, and send_notification, the only reader of the
\* error log, has been called at most once.
C14_ErrorLogDeleted ==
    HandledEnd => ~error_log_exists /\ notify_calls <= 1

(* ------------------------------ C15 ----------------------------------- *)
\* longest region token handed to normalize_region on its own
MaxTokenLen == 6

TokenAlphabet == {"a", "1", "-", "A", "\n"}

\* the tokens: the codes and regions the program names, and every string
\* over the alphabet up to the bound
RegionTokens ==
    {s_iad, s_phx, s_fra, s_us_ashburn_1, s_us_phoenix_1}
        \cup UNION { [1..n -> TokenAlphabet] : n \in 0..MaxTokenLen }

InitNormalize ==
    /\ nr_in \in RegionTokens
    /\ nr_out = <<>>
    /\ drpg_ocid = DrpgOcid(s_iad)
    /\ topic_ocid = NoneStr
    /\ pc = "normalize"
    /\ ret = 0
    /\ notif = NoNotif
    /\ region = NoneStr
    /\ region_file = NoneStr
    /\ files = {}
    /\ error_log_exists = FALSE
    /\ dr_client = NoneStr
    /\ peer_ocid = NoneStr
    /\ standby_ocid = NoneStr
    /\ standby_name = ""
    /\ listed_transitional = <<>>
    /\ dr_plans = NoPlans
    /\ idx = 0
    /\ log = <<>>
    /\ calls = <<>>
    /\ exit_status = -1
    /\ exit_line = 0
    /\ exit_kind = "running"
    /\ notify_calls = 0

\* normalize_region(nr_in)
Normalize ==
    /\ pc = "normalize"
    /\ nr_out = <<>>
    /\ nr_out' = <<normalize_region(nr_in)>>
    /\ UNCHANGED <<args, nr_in, ctl, region, region_file, files,
                   error_log_exists, dr_client, standby, listed_transitional,
                   dr_plans, idx, log, calls>>

\* normalize_region on a result that is not None
NormalizeAgain ==
    /\ pc = "normalize"
    /\ Len(nr_out) = 1
    /\ nr_out[1] # NoneStr
    /\ nr_out' = Append(nr_out, normalize_region(nr_out[1]))
    /\ UNCHANGED <<args, nr_in, ctl, region, region_file, files,
                   error_log_exists, dr_client, standby, listed_transitional,
                   dr_plans, idx, log, calls>>

NextNormalize == Normalize \/ NormalizeAgain

SpecNormalize == InitNormalize /\ [][NextNormalize]_vars

\* the canonical shape <2 of a-z0-9>-<some of a-z0-9>-<digit>, allowing the
\* newline that `$` lets through
CanonicalShape(t) ==
    LET u == IF Len(t) >= 1 /\ t[Len(t)] = "\n"
             THEN SubSeq(t, 1, Len(t) - 1) ELSE t
        n == Len(u)
        alnum == Lower \cup Digit
    IN  /\ n >= 6
        /\ u[1] \in alnum /\ u[2] \in alnum /\ u[3] = "-"
        /\ u[n - 1] = "-" /\ u[n] \in Digit
        /\ \A i \in 4..(n - 2) : u[i] \in alnum

\* C15: normalize_region returns a token of canonical shape unchanged, maps
\* iad to us-ashburn-1 and phx to us-phoenix-1, returns None for any other
\* token, and applied to a result that is not None returns that result.
C15_NormalizeRegionIdempotent ==
    /\ Len(nr_out) >= 1 =>
          /\ CanonicalShape(nr_in) => nr_out[1] = nr_in
          /\ nr_in = <<"i","a","d">> =>
                nr_out[1] = <<"u","s","-","a","s","h","b","u","r","n","-","1">>
          /\ nr_in = <<"p","h","x">> =>
                nr_out[1] = <<"u","s","-","p","h","o","e","n","i","x","-","1">>
          /\ (~CanonicalShape(nr_in) /\ nr_in # <<"i","a","d">>
                /\ nr_in # <<"p","h","x">>) => nr_out[1] = NoneStr
    /\ Len(nr_out) = 2 => nr_out[2] = nr_out[1]

\* a short code was mapped and the mapping normalized again
C15_Witness ==
    /\ nr_in = <<"p","h","x">>
    /\ Len(nr_out) = 2
    /\ nr_out[2] # NoneStr

(* ------------------------------ C16 ----------------------------------- *)
\* the run went through the finalization of lines 304-310, or ended in the
\* send_notification called from it
FinalizationReached == Terminated /\ (exit_line = 310 \/ ret = 305)

IsRunError(r) ==
    /\ IsError(r)
    /\ r.msg \notin {"Failed to send notification",
                     "Unable to determine valid region for the topic"}

\* the error log as it was when line 304 looked at it: the ERROR records
\* other than those send_notification itself logs
ErrorsAtFinalize == SelectSeq(log, IsRunError)

SomePlanFailed == \E i \in 1..Len(log) : log[i].msg = "Precheck failed"

\* C16 as stated: on a run that reached finalization a publish call was made
\* exactly when a topic was given and the error log was not empty.
C16_PublishedIffErrors ==
    FinalizationReached =>
        (PublishCalls # <<>>) <=> (TopicGiven /\ ErrorsAtFinalize # <<>>)

\* C16 amended: on a run that reached finalization send_notification was
\* called exactly when a topic was given and the error log was not empty,
\* which is so exactly when some plan's final state was not SUCCEEDED; a
\* message is published only from that call, with the error log as its body,
\* and is published whenever the topic's region resolves and send_notification
\* caught no failure.
C16_NotifiedIffErrors ==
    FinalizationReached =>
        /\ NotifyCalled <=> (TopicGiven /\ ErrorsAtFinalize # <<>>)
        /\ NotifyCalled => ret = 305 /\ notify_calls = 1
        /\ SomePlanFailed <=> ErrorsAtFinalize # <<>>
        /\ PublishCalls # <<>> =>
              /\ NotifyCalled
              /\ PublishCalls[1].body[3] = ErrorsAtFinalize
        /\ (NotifyCalled /\ TopicRegionResolves /\ ~NotifyFailureLogged) =>
              Len(PublishCalls) = 1 /\ PublishCalls[1].ok
        /\ ~SomePlanFailed => PublishCalls = <<>>

\* one plan passed, one failed, and the notification went out
C16_Witness ==
    /\ FinalizationReached
    /\ exit_status = 0
    /\ Len(PassFailLines) = 2
    /\ PassFailLines[1].msg = "Precheck passed"
    /\ PassFailLines[2].msg = "Precheck failed"
    /\ Len(PublishCalls) = 1
    /\ PublishCalls[1].ok

(* ------------------------------ C17 ----------------------------------- *)
\* C17: a run in which list_active_dr_plans returned None has ended, when it
\* has ended, at a sys.exit(1) with its region file deleted, without a
\* create-execution call and, if a topic was given, after calling
\* send_notification.
C17_ListFailureHandled ==
    (Terminated /\ dr_plans.kind = "None") =>
        /\ exit_status = 1
        /\ exit_kind = "sys.exit"
        /\ region_file \notin files
        /\ CreateCalls = <<>>
        /\ TopicGiven => NotifyCalled

(* ------------------------------ C18 ----------------------------------- *)
\* C18 as stated: at every point of a run at most one region file is on disk.
C18_AtMostOneRegionFile == Cardinality(files) <= 1

\* C18 amended: at every point of a run at most one region file of a
\* protection group is on disk, the one region_file names; the peer's file is
\* there only with the DRPG's gone, and on an error-exit the topic's file is
\* there only with the group's gone.  Two region files are on disk together
\* only inside or after the send_notification of line 305, which runs before
\* the delete of lines 307-308: the standby's and the topic's.
C18_OneGroupRegionFile ==
    /\ files \ {topic_ocid} \subseteq {region_file}
    /\ (SwitchedToPeer /\ region_file = peer_ocid) => drpg_ocid \notin files
    /\ ret \notin {0, 305} => files \subseteq {topic_ocid}
    /\ Cardinality(files) <= 2
    /\ Cardinality(files) = 2 =>
          /\ ret = 305
          /\ pc \in {"publish", "cleanup"}
          /\ files = {region_file, topic_ocid}

\* after the PRIMARY switch, in the send_notification of line 305: the peer's
\* region file and the topic's
C18_Witness ==
    /\ pc = "publish"
    /\ ret = 305
    /\ region_file = peer_ocid
    /\ region_file # drpg_ocid
    /\ files = {peer_ocid, topic_ocid}

(* ------------------------------ C19 ----------------------------------- *)
AnyCreate == CreateCalls # <<>>

FirstListPos == CHOOSE i \in 1..Len(calls) :
                    /\ IsList(calls[i])
                    /\ \A j \in 1..(i - 1) : ~IsList(calls[j])

FirstCreatePos == CreatePos(1, 1)

\* the fetch whose snapshot became the standby view: the last call before the
\* listing
StandbyFetch == calls[FirstListPos - 1]

ListingGuardsPassed ==
    /\ FirstListPos + 1 < FirstCreatePos
    /\ calls[FirstListPos].ok
    /\ IsList(calls[FirstListPos + 1])
    /\ calls[FirstListPos + 1].ok
    /\ calls[FirstListPos + 1].lifecycle_state = "ACTIVE"
    /\ dr_plans.kind = "list"
    /\ Len(dr_plans.items) >= 1
    /\ listed_transitional = <<>>

\* C19 as stated: any create-execution call is preceded by a successful fetch
\* of the standby view with role other than UNCONFIGURED and lifecycle state
\* ACTIVE, and by a listing that returned a non-empty list with no
\* transitional plan.
C19_CreateOnlyAfterGuards ==
    AnyCreate =>
        /\ IsGetGroup(StandbyFetch)
        /\ StandbyFetch.ok
        /\ StandbyFetch.role # "UNCONFIGURED"
        /\ StandbyFetch.lifecycle_state = "ACTIVE"
        /\ ListingGuardsPassed

\* C19 amended: any create-execution call is preceded by a successful fetch
\* of the DRPG the run was started with, with role other than UNCONFIGURED,
\* by a successful fetch of the standby view (that same fetch, or the fetch of
\* the peer when the role was PRIMARY) with lifecycle state ACTIVE, whatever
\* the role of a peer is, and by a listing that returned a non-empty list with
\* no transitional plan.
C19_CreateOnlyAfterCodeGuards ==
    AnyCreate =>
        /\ IsGetGroup(calls[1])
        /\ calls[1].id = drpg_ocid
        /\ calls[1].ok
        /\ calls[1].role # "UNCONFIGURED"
        /\ IsGetGroup(StandbyFetch)
        /\ StandbyFetch.ok
        /\ StandbyFetch.id = standby_ocid
        /\ StandbyFetch.lifecycle_state = "ACTIVE"
        /\ FirstListPos = (IF calls[1].role = "PRIMARY" THEN 3 ELSE 2)
        /\ calls[1].role = "PRIMARY" => StandbyFetch.id = peer_ocid
        /\ ListingGuardsPassed

\* a create-execution call on the peer of a PRIMARY group
C19_Witness ==
    /\ AnyCreate
    /\ calls[1].role = "PRIMARY"
    /\ FirstListPos = 3
    /\ CreateCalls[1].ok

(* ------------------------------ C20 ----------------------------------- *)
\* C20: no run calls send_notification twice or makes two publish calls; a
\* send_notification called from an error-exit is followed by nothing but
\* the end of the process.
C20_AtMostOneNotification ==
    /\ notify_calls <= 1
    /\ Len(PublishCalls) <= 1
    /\ NotifyCalled <=> notify_calls = 1
    /\ ret \notin {0, 305} => pc \in {"notify", "publish", "done"}
    /\ (ret \notin {0, 305} /\ Terminated) => exit_status = 1

\* an error-exit that published once and ended at its sys.exit(1)
C20_Witness ==
    /\ Terminated
    /\ ret = 270
    /\ exit_line = 270
    /\ notify_calls = 1
    /\ Len(PublishCalls) = 1
    /\ PublishCalls[1].ok

====
